---- MODULE Spec2Model ----
(***************************************************************************)
(* Guest-side runtime shim of src/pre_hf/src/lib.rs: the allocate /        *)
(* deallocate exports, the string_to_ptr / ptr_to_string helpers and the   *)
(* log adapter, over one linear memory and the global allocator.           *)
(***************************************************************************)
EXTENDS Integers, Sequences, FiniteSets, Bags, TLC

VARIABLES
    mem,        \* linear memory: address -> byte
    avail,      \* addresses the global allocator holds as free
    reserved,   \* blocks the global allocator has handed out: [ptr, size]
    owned,      \* bag of the handles the host owns: returned by allocate, not yet
                \* deallocated, each [ptr, size]
    strings,    \* bag of the guest's live String values, each [ptr, len, cap]
    hostLog,    \* calls of the host import `log` made by the last call: [ptr, len, data]
    trapped,    \* the instance has aborted (out of memory, or a trap)
    last        \* the call that has just returned: its name, its
                \* arguments a and b, the offset r it returned (or 0)

vars == <<mem, avail, reserved, owned, strings, hostLog, trapped, last>>

----------------------------------------------------------------------------
(* Bounds of the model *)

MemSize == 16       \* addresses 0 .. MemSize-1
HeapBase == 6       \* first address the allocator manages; below it: data and stack
MaxOwned == 2       \* handles the host holds at once
MaxStrings == 3     \* Strings the guest holds at once

(* Program constants *)

\* NonNull::<MaybeUninit<u8>>::dangling(): the pointer of a Vec or boxed slice
\* that holds no memory is its alignment, 1.
DANGLING == 1

\* 2^16: a u32 is two 16-bit halves
HalfWord == 65536

Addr == 0 .. (MemSize - 1)
Heap == HeapBase .. (MemSize - 1)

Hello == <<104, 101, 108, 108, 111>>
World == <<119, 111, 114, 108, 100>>

\* Byte strings callers write into their buffers (all valid UTF-8).
Words == {Hello, World}

\* Sizes callers request.
Sizes == {0, 5}

Region(p, n) == p .. (p + n - 1)

Overlap(p, n, q, m) == Region(p, n) \cap Region(q, m) # {}

\* `x as u32`: x modulo 2^32, computed on the two halves of the word
ToU32(x) == (x % HalfWord) + HalfWord * ((x \div HalfWord) % HalfWord)

----------------------------------------------------------------------------
(* The global allocator (ALLOC), as the GlobalAlloc contract gives it *)

HeapState == [avail |-> avail, reserved |-> reserved]

\* alloc(Layout(n, 1)), n > 0: n bytes carved from the start of any free block
\* (a maximal run of free addresses) that holds them; no outcome when none
\* does (the caller aborts).
GlobalAlloc(h, n) ==
    { [ptr |-> p,
       heap |-> [avail |-> h.avail \ Region(p, n),
                 reserved |-> h.reserved \cup {[ptr |-> p, size |-> n]}]] :
      p \in {q \in h.avail : Region(q, n) \subseteq h.avail /\ (q - 1) \notin h.avail} }

\* dealloc(p, Layout(n, 1)), n > 0.  A block the allocator handed out with
\* that size goes back to the free list.  Anything else is undefined
\* behaviour: the instance traps on the block header, or the allocator takes
\* the bytes for a free block.
GlobalDealloc(h, p, n) ==
    IF [ptr |-> p, size |-> n] \in h.reserved
    THEN { [trap |-> FALSE,
            heap |-> [avail |-> h.avail \cup Region(p, n),
                      reserved |-> h.reserved \ {[ptr |-> p, size |-> n]}]] }
    ELSE { [trap |-> TRUE, heap |-> h],
           [trap |-> FALSE,
            heap |-> [avail |-> h.avail \cup (Region(p, n) \cap Addr),
                      reserved |-> h.reserved]] }

----------------------------------------------------------------------------
(* Vec<u8> / Box<[u8]> as lib.rs uses them *)

\* Vec::with_capacity(n): no memory for n = 0, else a block of n bytes; len 0.
VecWithCapacity(h, n) ==
    IF n = 0
    THEN { [vec |-> [ptr |-> DANGLING, len |-> 0, cap |-> 0], heap |-> h] }
    ELSE { [vec |-> [ptr |-> a.ptr, len |-> 0, cap |-> n], heap |-> a.heap] :
           a \in GlobalAlloc(h, n) }

\* vec.into_boxed_slice(): the capacity beyond len is given up first.  Every
\* Vec lib.rs boxes has len 0, so its whole block goes back to the allocator
\* and the box is the empty slice at the dangling pointer.
IntoBoxedSlice(h, v) ==
    IF v.len < v.cap
    THEN { [ptr |-> DANGLING, len |-> 0, heap |-> d.heap] :
           d \in GlobalDealloc(h, v.ptr, v.cap) }
    ELSE { [ptr |-> v.ptr, len |-> v.len, heap |-> h] }

\* A drop that hands the pointer to the allocator whatever the capacity.
VecDropAlways(h, p, cap) == GlobalDealloc(h, p, cap)

\* Drop of Vec::from_raw_parts(p, _, cap): nothing for cap = 0, else dealloc.
VecDrop(h, p, cap) ==
    IF cap = 0
    THEN { [trap |-> FALSE, heap |-> h] }
    ELSE GlobalDealloc(h, p, cap)

\* slice::from_raw_parts_mut(p, n) read as bytes
ReadBytes(m, p, n) == [i \in 1 .. n |-> m[p + i - 1]]

\* copy of bytes bs to address p
WriteBytes(m, p, bs) ==
    [a \in Addr |-> IF a \in Region(p, Len(bs)) THEN bs[a - p + 1] ELSE m[a]]

Call(op, a, b, r) == [op |-> op, a |-> a, b |-> b, r |-> r]

One(x) == SetToBag({x})

----------------------------------------------------------------------------
Init ==
    /\ mem = [a \in Addr |-> 0]
    /\ avail = Heap
    /\ reserved = {}
    /\ owned = EmptyBag
    /\ strings = EmptyBag
    /\ hostLog = <<>>
    /\ trapped = FALSE
    /\ last = Call("init", 0, 0, 0)

\* allocate(size): Vec::with_capacity(size), then Box::into_raw of
\* vec.into_boxed_slice().  The host records the handle (offset, size).
allocate(size) ==
    /\ ~trapped
    /\ BagCardinality(owned) < MaxOwned
    /\ VecWithCapacity(HeapState, size) # {}
    /\ \E v \in VecWithCapacity(HeapState, size) :
         \E b \in IntoBoxedSlice(v.heap, v.vec) :
            /\ avail' = b.heap.avail
            /\ reserved' = b.heap.reserved
            /\ owned' = owned (+) One([ptr |-> b.ptr, size |-> size])
            /\ last' = Call("allocate", size, 0, b.ptr)
    /\ hostLog' = <<>>
    /\ UNCHANGED <<mem, strings, trapped>>

\* allocate(size) when the allocator has no block of size bytes: abort.
allocateOom(size) ==
    /\ ~trapped
    /\ BagCardinality(owned) < MaxOwned
    /\ VecWithCapacity(HeapState, size) = {}
    /\ trapped' = TRUE
    /\ last' = Call("allocate", size, 0, 0)
    /\ hostLog' = <<>>
    /\ UNCHANGED <<mem, avail, reserved, owned, strings>>

\* deallocate(ptr, size) of a handle the host owns: the drop of
\* Vec::from_raw_parts(ptr as *mut u8, 0, size).
deallocate(ptr, size) ==
    /\ ~trapped
    /\ BagIn([ptr |-> ptr, size |-> size], owned)
    /\ \E d \in VecDrop(HeapState, ToU32(ptr), size) :
         /\ avail' = d.heap.avail
         /\ reserved' = d.heap.reserved
         /\ trapped' = d.trap
    /\ owned' = owned (-) One([ptr |-> ptr, size |-> size])
    /\ last' = Call("deallocate", ptr, size, 0)
    /\ hostLog' = <<>>
    /\ UNCHANGED <<mem, strings>>

\* The owner of a handle fills its buffer with the bytes of a word.
hostWrite(ptr, w) ==
    /\ ~trapped
    /\ BagIn([ptr |-> ptr, size |-> Len(w)], owned)
    /\ mem' = WriteBytes(mem, ptr, w)
    /\ last' = Call("write", ptr, Len(w), 0)
    /\ hostLog' = <<>>
    /\ UNCHANGED <<avail, reserved, owned, strings, trapped>>

\* The pair with its two components in the wrong order.
StringToPtrSwapped(s) == <<ToU32(s.len), ToU32(s.ptr)>>

\* string_to_ptr(s): (s.as_ptr() as u32, s.len() as u32)
StringToPtr(s) == <<ToU32(s.ptr), ToU32(s.len)>>

\* string_to_ptr on a clone of the String: a block is taken for the clone.
string_to_ptrClone(s) ==
    /\ ~trapped
    /\ BagIn(s, strings)
    /\ \E v \in VecWithCapacity(HeapState, s.len) :
         /\ avail' = v.heap.avail
         /\ reserved' = v.heap.reserved
         /\ mem' = WriteBytes(mem, v.vec.ptr, ReadBytes(mem, s.ptr, s.len))
         /\ last' = Call("string_to_ptr", ToU32(v.vec.ptr), ToU32(s.len), 0)
    /\ hostLog' = <<>>
    /\ UNCHANGED <<owned, strings, trapped>>

string_to_ptr(s) ==
    /\ ~trapped
    /\ BagIn(s, strings)
    /\ last' = Call("string_to_ptr", StringToPtr(s)[1], StringToPtr(s)[2], 0)
    /\ hostLog' = <<>>
    /\ UNCHANGED <<mem, avail, reserved, owned, strings, trapped>>

\* The (offset, length) pairs a caller may decode: a buffer it owns, or the
\* pair of a live String.
Sources ==
    {<<h.ptr, h.size>> : h \in BagToSet(owned)}
        \cup {StringToPtr(s) : s \in BagToSet(strings)}

\* String::from(utf8) with memory left as it was: the buffer is obtained and
\* its length set, but the bytes are never copied into it.
StringFromUninit(h, m, bs) ==
    { [str |-> [ptr |-> v.vec.ptr, len |-> Len(bs), cap |-> v.vec.cap],
       heap |-> v.heap,
       mem |-> m] :
      v \in VecWithCapacity(h, Len(bs)) }

\* String::from(utf8): a Vec of capacity and length n that holds a copy of
\* the n bytes bs.
StringFrom(h, m, bs) ==
    { [str |-> [ptr |-> v.vec.ptr, len |-> Len(bs), cap |-> v.vec.cap],
       heap |-> v.heap,
       mem |-> WriteBytes(m, v.vec.ptr, bs)] :
      v \in VecWithCapacity(h, Len(bs)) }

\* ptr_to_string(ptr, len): the len bytes at ptr, taken as UTF-8 without a
\* check, copied into a new String.
ptr_to_string(ptr, len) ==
    /\ ~trapped
    /\ BagCardinality(strings) < MaxStrings
    /\ <<ptr, len>> \in Sources
    /\ StringFrom(HeapState, mem, ReadBytes(mem, ptr, len)) # {}
    /\ \E n \in StringFrom(HeapState, mem, ReadBytes(mem, ptr, len)) :
         /\ avail' = n.heap.avail
         /\ reserved' = n.heap.reserved
         /\ mem' = n.mem
         /\ strings' = strings (+) One(n.str)
         /\ last' = Call("ptr_to_string", ptr, len, n.str.ptr)
    /\ hostLog' = <<>>
    /\ UNCHANGED <<owned, trapped>>

\* ptr_to_string(ptr, len) when the allocator has no block for the copy: abort.
ptr_to_stringOom(ptr, len) ==
    /\ ~trapped
    /\ BagCardinality(strings) < MaxStrings
    /\ <<ptr, len>> \in Sources
    /\ StringFrom(HeapState, mem, ReadBytes(mem, ptr, len)) = {}
    /\ trapped' = TRUE
    /\ last' = Call("ptr_to_string", ptr, len, 0)
    /\ hostLog' = <<>>
    /\ UNCHANGED <<mem, avail, reserved, owned, strings>>

\* The host import _log(ptr, size): the host reads size bytes at ptr.
HostLog(calls, m, ptr, size) ==
    Append(calls, [ptr |-> ptr, len |-> size, data |-> ReadBytes(m, ptr, size)])

\* log taking the String by value: the message is dropped when log returns.
logConsume(s) ==
    /\ ~trapped
    /\ BagIn(s, strings)
    /\ LET pair == StringToPtr(s)
       IN  /\ hostLog' = HostLog(<<>>, mem, pair[1], pair[2])
           /\ last' = Call("log", pair[1], pair[2], 0)
    /\ \E d \in VecDrop(HeapState, s.ptr, s.cap) :
         /\ avail' = d.heap.avail
         /\ reserved' = d.heap.reserved
         /\ trapped' = d.trap
    /\ strings' = strings (-) One(s)
    /\ UNCHANGED <<mem, owned>>

\* log(message): string_to_ptr(message), then _log(ptr, len).
log(s) ==
    /\ ~trapped
    /\ BagIn(s, strings)
    /\ LET pair == StringToPtr(s)
       IN  /\ hostLog' = HostLog(<<>>, mem, pair[1], pair[2])
           /\ last' = Call("log", pair[1], pair[2], 0)
    /\ UNCHANGED <<mem, avail, reserved, owned, strings, trapped>>

\* A String goes out of scope: its Vec is dropped.
dropString(s) ==
    /\ ~trapped
    /\ BagIn(s, strings)
    /\ \E d \in VecDrop(HeapState, s.ptr, s.cap) :
         /\ avail' = d.heap.avail
         /\ reserved' = d.heap.reserved
         /\ trapped' = d.trap
    /\ strings' = strings (-) One(s)
    /\ last' = Call("drop", s.ptr, s.cap, 0)
    /\ hostLog' = <<>>
    /\ UNCHANGED <<mem, owned>>

Next ==
    \/ \E size \in Sizes : allocate(size)
    \/ \E size \in Sizes : allocateOom(size)
    \/ \E h \in BagToSet(owned) : deallocate(h.ptr, h.size)
    \/ \E h \in BagToSet(owned) : \E w \in Words : hostWrite(h.ptr, w)
    \/ \E s \in BagToSet(strings) : string_to_ptr(s)
    \/ \E src \in Sources : ptr_to_string(src[1], src[2])
    \/ \E src \in Sources : ptr_to_stringOom(src[1], src[2])
    \/ \E s \in BagToSet(strings) : log(s)
    \/ \E s \in BagToSet(strings) : dropString(s)

Spec == Init /\ [][Next]_vars

TypeOK ==
    /\ mem \in [Addr -> 0 .. 255]
    /\ avail \subseteq Addr
    /\ \A r \in reserved : r.size > 0 /\ Region(r.ptr, r.size) \subseteq Addr
    /\ trapped \in BOOLEAN
    /\ IsABag(owned) /\ BagCardinality(owned) <= MaxOwned
    /\ IsABag(strings) /\ BagCardinality(strings) <= MaxStrings
    /\ \A s \in BagToSet(strings) : s.len = s.cap
    /\ Len(hostLog) <= 1

----------------------------------------------------------------------------
(* Notions the properties are stated with *)

\* The bytes of a String.
Bytes(m, s) == ReadBytes(m, s.ptr, s.len)

\* A String is alive when the allocator still holds its buffer for it.
Alive(s) ==
    \/ s.cap = 0
    \/ /\ [ptr |-> s.ptr, size |-> s.cap] \in reserved
       /\ Region(s.ptr, s.cap) \cap avail = {}

\* The String a ptr_to_string call c returned.
Returned(c) == [ptr |-> c.r, len |-> c.b, cap |-> c.b]

AllocatorUnchanged == avail' = avail /\ reserved' = reserved

----------------------------------------------------------------------------
(* C1: no two regions the host owns at the same time overlap. *)
OwnershipNonAliasing ==
    \A g, h \in BagToSet(owned) :
        (g # h \/ CopiesIn(g, owned) > 1) =>
            ~Overlap(g.ptr, g.size, h.ptr, h.size)

(* C2: from the return of allocate(size) until deallocate(p, size), the size
   bytes at p are a block the allocator holds reserved: not on its free list
   and not part of another allocation. *)
OwnedStaysReserved ==
    \A h \in BagToSet(owned) :
        h.size > 0 =>
            /\ [ptr |-> h.ptr, size |-> h.size] \in reserved
            /\ Region(h.ptr, h.size) \cap avail = {}
            /\ \A s \in BagToSet(strings) : ~Overlap(h.ptr, h.size, s.ptr, s.cap)

(* C3: round trip.  When ptr_to_string is applied to the pair string_to_ptr
   gives for a String s that is alive, the String it returns has the length
   and the bytes of s, and s is as it was. *)
RoundTrip ==
    [][ (last'.op = "ptr_to_string" /\ ~trapped') =>
          \A s \in BagToSet(strings) :
              (Alive(s) /\ <<last'.a, last'.b>> = <<s.ptr, s.len>>) =>
                  /\ BagIn(Returned(last'), strings')
                  /\ Returned(last').len = s.len
                  /\ Bytes(mem', Returned(last')) = Bytes(mem, s)
                  /\ BagIn(s, strings')
                  /\ Bytes(mem', s) = Bytes(mem, s) ]_vars

\* A String that holds "hello" has been decoded from the pair of another
\* one, which lives in the heap.
RoundTripWitness ==
    /\ last.op = "ptr_to_string"
    /\ ~trapped
    /\ last.a \in Heap
    /\ last.b = 5
    /\ last.r # last.a
    /\ BagIn([ptr |-> last.a, len |-> 5, cap |-> 5], strings)
    /\ Alive([ptr |-> last.a, len |-> 5, cap |-> 5])
    /\ BagIn(Returned(last), strings)
    /\ Bytes(mem, Returned(last)) = Hello

(* C4: borrow safety of log.  A call of log changes no byte of memory, frees
   and moves nothing, and changes no ownership: every String, the message
   among them, is where it was, with its length and its bytes, and still
   alive if it was. *)
LogBorrows ==
    [][ last'.op = "log" =>
          /\ ~trapped'
          /\ mem' = mem
          /\ strings' = strings
          /\ owned' = owned
          /\ AllocatorUnchanged
          /\ \A s \in BagToSet(strings) :
                 /\ Bytes(mem', s) = Bytes(mem, s)
                 /\ Alive(s) => Alive(s)' ]_vars

\* log has just returned for a live String of five bytes.
LogBorrowsWitness ==
    /\ last.op = "log"
    /\ Len(hostLog) = 1
    /\ last.b = 5
    /\ BagIn([ptr |-> last.a, len |-> 5, cap |-> 5], strings)
    /\ Alive([ptr |-> last.a, len |-> 5, cap |-> 5])

(* C5: size fidelity.  allocate(n) followed at once by deallocate(ptr, n)
   succeeds, gives the n bytes back, touches no other reserved block, and
   leaves the allocator able to satisfy allocate(n) again. *)
SizeFidelity ==
    [][ (/\ last.op = "allocate"
         /\ ~trapped
         /\ last'.op = "deallocate"
         /\ <<last'.a, last'.b>> = <<last.r, last.a>>) =>
          /\ ~trapped'
          /\ reserved' = reserved \ {[ptr |-> last'.a, size |-> last'.b]}
          /\ (last'.b > 0 => [ptr |-> last'.a, size |-> last'.b] \in reserved)
          /\ VecWithCapacity(HeapState', last'.b) # {} ]_vars

(* C6: boundary value.  allocate(0) succeeds with an offset that is not null,
   and deallocate(ptr, 0) of that handle completes, releases nothing and
   changes no byte: the allocator, the memory, the Strings and the other
   handles are as before. *)
BoundaryValue ==
    [][ /\ (last'.op = "allocate" /\ last'.a = 0) =>
              /\ ~trapped'
              /\ last'.r # 0
              /\ owned' = owned (+) One([ptr |-> last'.r, size |-> 0])
              /\ AllocatorUnchanged
              /\ mem' = mem /\ strings' = strings
        /\ (last'.op = "deallocate" /\ last'.b = 0) =>
              /\ ~trapped'
              /\ AllocatorUnchanged
              /\ mem' = mem /\ strings' = strings
              /\ BagIn([ptr |-> last'.a, size |-> 0], owned)
              /\ owned' = owned (-) One([ptr |-> last'.a, size |-> 0]) ]_vars

\* deallocate(ptr, 0) has just returned while a buffer of five bytes is owned
\* and a String is alive in the allocator.
BoundaryValueWitness ==
    /\ last.op = "deallocate"
    /\ last.a # 0
    /\ last.b = 0
    /\ ~trapped
    /\ \E h \in BagToSet(owned) : h.size = 5
    /\ \E s \in BagToSet(strings) : s.cap = 5 /\ Alive(s)

(* C7: scenario.  After allocate(5) returns ptr and "hello" is written at
   ptr, ptr_to_string(ptr, 5) yields "hello"; log of that String makes the
   host receive exactly (ptr, 5) and read "hello"; deallocate(ptr, 5) after
   it succeeds and allocate(5) can then be satisfied. *)
ScenarioOrdering ==
    [][ /\ (/\ last.op = "ptr_to_string"
            /\ ~trapped
            /\ BagIn([ptr |-> last.a, size |-> 5], owned)
            /\ last.b = 5
            /\ ReadBytes(mem, last.a, 5) = Hello
            /\ last'.op = "log"
            /\ <<last'.a, last'.b>> = StringToPtr(Returned(last))) =>
              /\ Bytes(mem, Returned(last)) = Hello
              /\ hostLog' = << [ptr |-> last.a, len |-> 5, data |-> Hello] >>
        /\ (/\ last.op = "log"
            /\ hostLog = << [ptr |-> last.a, len |-> 5, data |-> Hello] >>
            /\ last'.op = "deallocate"
            /\ last'.b = 5) =>
              /\ ~trapped'
              /\ VecWithCapacity(HeapState', 5) # {} ]_vars

(* C8, as the spec has it: neither string_to_ptr nor ptr_to_string changes
   the blocks reserved in the allocator or creates an owned region; only
   allocate does. *)
MarshalingNeverAllocates ==
    [][ /\ last'.op \in {"string_to_ptr", "ptr_to_string"} =>
              /\ AllocatorUnchanged
              /\ owned' = owned
        /\ BagCardinality(owned') > BagCardinality(owned) =>
              last'.op = "allocate" ]_vars

(* C8, amended: string_to_ptr changes nothing in the allocator and no
   ownership.  ptr_to_string hands no region to the host and releases no
   block, but for length > 0 it takes one block of length bytes from the
   allocator, the buffer of the String it returns; for length 0 it takes
   none.  Only allocate gives the host a handle. *)
MarshalingAllocatesOnlyTheCopy ==
    [][ /\ last'.op = "string_to_ptr" =>
              /\ AllocatorUnchanged
              /\ owned' = owned /\ strings' = strings /\ mem' = mem
        /\ (last'.op = "ptr_to_string" /\ ~trapped') =>
              /\ owned' = owned
              /\ reserved \subseteq reserved'
              /\ last'.b = 0 => AllocatorUnchanged
              /\ last'.b > 0 =>
                    /\ [ptr |-> last'.r, size |-> last'.b] \in reserved'
                    /\ reserved' \subseteq
                          reserved \cup {[ptr |-> last'.r, size |-> last'.b]}
                    /\ Region(last'.r, last'.b) \subseteq avail
                    /\ avail' = avail \ Region(last'.r, last'.b)
        /\ BagCardinality(owned') > BagCardinality(owned) =>
              last'.op = "allocate" ]_vars

\* ptr_to_string has just returned a String of five bytes, decoded from a
\* buffer the host owns, in a block of its own.
MarshalingWitness ==
    /\ last.op = "ptr_to_string"
    /\ last.b = 5
    /\ ~trapped
    /\ [ptr |-> last.r, size |-> 5] \in reserved
    /\ BagIn([ptr |-> last.a, size |-> 5], owned)

(* C9: a call log(message) makes exactly one call of the host import, with
   the offset of the message's own bytes and its byte length, the pair
   string_to_ptr gives; nothing is copied: the allocator and the memory are
   as before. *)
LogCallsHostOnce ==
    [][ last'.op = "log" =>
          /\ Len(hostLog') = 1
          /\ \E s \in BagToSet(strings) :
                 /\ hostLog'[1].ptr = s.ptr
                 /\ hostLog'[1].len = s.len
                 /\ hostLog'[1].data = Bytes(mem, s)
                 /\ <<last'.a, last'.b>> = <<s.ptr, s.len>>
          /\ AllocatorUnchanged
          /\ mem' = mem ]_vars

\* The host has just received the pair of a String that holds "hello".
LogCallsHostOnceWitness ==
    /\ last.op = "log"
    /\ Len(hostLog) = 1
    /\ hostLog[1].len = 5
    /\ hostLog[1].data = Hello
    /\ \E s \in BagToSet(strings) : s.ptr = hostLog[1].ptr /\ s.len = 5

(* C10: the String ptr_to_string(offset, length) returns lies off the source
   region, and no later write to a buffer the host owns and no later
   deallocate of one changes the bytes of a String or ends its life. *)
DecodedStringIndependent ==
    [][ /\ (last'.op = "ptr_to_string" /\ ~trapped') =>
              ~Overlap(last'.r, last'.b, last'.a, last'.b)
        /\ last'.op \in {"write", "deallocate"} =>
              \A s \in BagToSet(strings) :
                  Alive(s) =>
                      /\ BagIn(s, strings')
                      /\ Bytes(mem', s) = Bytes(mem, s)
                      /\ Alive(s)' ]_vars

====
